---- MODULE Spec2Model ----
(***************************************************************************)
(* Model of src/app.py: a Slack "message" event handler that loads the     *)
(* thread's pickled chat history from a bucket, asks the chat model for a  *)
(* completion, posts the reply, stores the updated history and, for a new  *)
(* thread, writes an audit log entry.  Every inbound event is handled by   *)
(* its own invocation of handle_incoming_message; invocations interleave   *)
(* at their network calls.                                                 *)
(***************************************************************************)
EXTENDS Integers, Sequences, FiniteSets, TLC

\* Number of inbound events handled (each by its own handler invocation).
MaxEvents == 2

Events == 1 .. MaxEvents

\* Python's None, for a text or timestamp that is absent.
None == << >>

\* A blob name that holds no object.
NoBlob == << >>

(***************************************************************************)
(* Texts are sequences of characters.                                      *)
(***************************************************************************)
\* The fixed policy-violation notice of line 135.
POLICY_NOTICE == <<"POLICY_NOTICE">>

\* Line 144.
DUMMY_METADATA == "dummy_metadata_chat"

\* str.strip(chars): drop leading and trailing characters that are in chars.
RECURSIVE LStrip(_, _)
LStrip(s, chars) ==
    IF s # << >> /\ Head(s) \in chars THEN LStrip(Tail(s), chars) ELSE s

RECURSIVE RStrip(_, _)
RStrip(s, chars) ==
    IF s # << >> /\ s[Len(s)] \in chars
    THEN RStrip(SubSeq(s, 1, Len(s) - 1), chars)
    ELSE s

Strip(s, chars) == RStrip(LStrip(s, chars), chars)

\* The characters line 132 strips: a space and a newline.
StripChars == {" ", "\n"}

\* Line 132: is_empty_response = len(response.text.strip(" \n")) < 1
IsEmptyResponse(text) == Len(Strip(text, StripChars)) < 1

\* utils.remove_markdown: drops the markdown emphasis / heading characters.
MarkdownChars == {"*", "#"}

RECURSIVE remove_markdown(_)
remove_markdown(text) ==
    IF text = << >> THEN << >>
    ELSE IF Head(text) \in MarkdownChars THEN remove_markdown(Tail(text))
    ELSE <<Head(text)>> \o remove_markdown(Tail(text))

\* Variant of SelectPayload that forgets the is_blocked test.
SelectPayloadIgnoringBlock(response) ==
    IF IsEmptyResponse(response.text)
    THEN POLICY_NOTICE
    ELSE remove_markdown(response.text)

\* Lines 134-138: the text that is posted.
SelectPayload(response) ==
    IF response.is_blocked \/ IsEmptyResponse(response.text)
    THEN POLICY_NOTICE
    ELSE remove_markdown(response.text)

(***************************************************************************)
(* Inbound events (the payload dict of handle_incoming_message).           *)
(***************************************************************************)
\* Slack gives every message its own ts.
Ts(e) == <<"ts", 99 + e>>

PromptOf(e) == <<"prompt", e>>

UserOf(e) == <<"U", e>>

ChannelOf(e) == IF e = 1 THEN "C1" ELSE "C2"

\* A message that starts a thread (no thread_ts), or a message inside the
\* thread that the first message started in channel C1.
InboundEvents(e) ==
    { [channel |-> ChannelOf(e), user |-> UserOf(e), text |-> PromptOf(e),
       ts |-> Ts(e), thread_ts |-> None],
      [channel |-> "C1", user |-> UserOf(e), text |-> PromptOf(e),
       ts |-> Ts(e), thread_ts |-> Ts(1)] }

\* Line 171: conversation_thread = ts if thread_ts is None else thread_ts
ConversationThread(ev) == IF ev.thread_ts = None THEN ev.ts ELSE ev.thread_ts

\* Line 105: historical_chat_blob_name = f"{conversation_thread}.pkl"
BlobName(conversation_thread) == <<conversation_thread, ".pkl">>

ThreadIds == {Ts(e) : e \in Events}

BlobNames == {BlobName(t) : t \in ThreadIds}

(***************************************************************************)
(* The chat model's answers: (text, is_blocked).                           *)
(***************************************************************************)
Responses ==
    { [text |-> <<"*", "a", "*">>, is_blocked |-> FALSE],
      [text |-> <<"*", "a", "*">>, is_blocked |-> TRUE],
      [text |-> << >>, is_blocked |-> TRUE],
      [text |-> <<" ", "\n">>, is_blocked |-> FALSE],
      [text |-> <<"\t">>, is_blocked |-> FALSE] }

Keywords == {"keyword"}

\* ChatSession.send_message: the session's history gains this turn.
ChatSend(history, prompt, text) ==
    Append(history, [input |-> prompt, output |-> text])

(***************************************************************************)
(* pickle: the record {metadata, historical_chat} as a flat byte string.   *)
(***************************************************************************)
RECURSIVE Flatten(_)
Flatten(history) ==
    IF history = << >> THEN << >>
    ELSE <<Head(history).input, Head(history).output>> \o Flatten(Tail(history))

Serialize(metadata, history) ==
    <<"PKL", metadata, Len(history)>> \o Flatten(history)

\* Variant of Deserialize that reads one turn too few.
DeserializeDropLast(bytes) ==
    [metadata |-> bytes[2],
     historical_chat |->
        [i \in 1 .. bytes[3] - 1 |->
            [input |-> bytes[3 + 2 * i - 1], output |-> bytes[3 + 2 * i]]]]

\* Line 119: pickle.loads
Deserialize(bytes) ==
    [metadata |-> bytes[2],
     historical_chat |->
        [i \in 1 .. bytes[3] |->
            [input |-> bytes[3 + 2 * i - 1], output |-> bytes[3 + 2 * i]]]]

(***************************************************************************)
(* State.                                                                  *)
(***************************************************************************)
VARIABLES
    pc,                  \* each handler invocation's position
    failed_at,           \* the call that raised, for an aborted invocation
    event,               \* the inbound payload of each invocation
    is_existing_thread,  \* line 111
    message_history,     \* lines 113-120
    chat,                \* chat._message_history
    response,            \* line 128
    payload,             \* lines 134-138
    keyword,             \* line 152
    store,               \* the bucket: blob name -> bytes
    posts,               \* the chat_postMessage calls made for each event
    audit_log,           \* the send_log calls made for each event
    saved,               \* whether the invocation's store call completed
    loaded,              \* the blob content the invocation's lookup found
    last_saved           \* history argument of the latest completed store call

vars == <<pc, failed_at, event, is_existing_thread, message_history, chat,
          response, payload, keyword, store, posts, audit_log, saved,
          loaded, last_saved>>

locals == <<is_existing_thread, message_history, chat, response, payload,
            keyword>>

outputs == <<store, posts, audit_log, saved, last_saved>>


\* Before its event arrives an invocation has no payload and no answer.
NoEvent == [channel |-> "", user |-> None, text |-> None, ts |-> None,
            thread_ts |-> None]

NoResponse == [text |-> None, is_blocked |-> FALSE]

Init ==
    /\ pc = [e \in Events |-> "idle"]
    /\ failed_at = [e \in Events |-> ""]
    /\ event = [e \in Events |-> NoEvent]
    /\ is_existing_thread = [e \in Events |-> FALSE]
    /\ message_history = [e \in Events |-> << >>]
    /\ chat = [e \in Events |-> << >>]
    /\ response = [e \in Events |-> NoResponse]
    /\ payload = [e \in Events |-> None]
    /\ keyword = [e \in Events |-> ""]
    /\ store = [b \in BlobNames |-> NoBlob]
    /\ posts = [e \in Events |-> << >>]
    /\ audit_log = [e \in Events |-> << >>]
    /\ saved = [e \in Events |-> FALSE]
    /\ loaded = [e \in Events |-> NoBlob]
    /\ last_saved = [b \in BlobNames |-> << >>]

\* generate_response returns or raises: its locals are gone.
Return(e) ==
    /\ is_existing_thread' = [is_existing_thread EXCEPT ![e] = FALSE]
    /\ message_history' = [message_history EXCEPT ![e] = << >>]
    /\ chat' = [chat EXCEPT ![e] = << >>]
    /\ response' = [response EXCEPT ![e] = NoResponse]
    /\ payload' = [payload EXCEPT ![e] = None]
    /\ keyword' = [keyword EXCEPT ![e] = ""]

\* The blob an invocation reads and writes (line 105).
BlobOf(e) == BlobName(ConversationThread(event[e]))

(***************************************************************************)
(* handle_incoming_message, lines 156-173: the event arrives.  Slack       *)
(* delivers a message after the ones with a smaller ts.                    *)
(***************************************************************************)
Receive(e) ==
    /\ pc[e] = "idle"
    /\ \A d \in Events : d < e => pc[d] # "idle"
    /\ \E ev \in InboundEvents(e) : event' = [event EXCEPT ![e] = ev]
    /\ pc' = [pc EXCEPT ![e] = "received"]
    /\ UNCHANGED <<failed_at, locals, outputs, loaded>>

\* Variant of CheckExists that takes every thread for an existing one.
CheckExistsAlwaysExisting(e) ==
    /\ pc[e] = "received"
    /\ is_existing_thread' = [is_existing_thread EXCEPT ![e] = TRUE]
    /\ pc' = [pc EXCEPT ![e] = "checked"]
    /\ UNCHANGED <<failed_at, event, message_history, chat, response, payload,
                   keyword, outputs, loaded>>

(***************************************************************************)
(* Lines 105-113: the blob is looked up; a missing blob is not an error    *)
(* and leaves message_history empty.                                       *)
(***************************************************************************)
CheckExists(e) ==
    /\ pc[e] = "received"
    /\ LET exists == store[BlobOf(e)] # NoBlob
       IN /\ is_existing_thread' = [is_existing_thread EXCEPT ![e] = exists]
          /\ pc' = [pc EXCEPT ![e] = IF exists THEN "checked" ELSE "loaded"]
    /\ UNCHANGED <<failed_at, event, message_history, chat, response, payload,
                   keyword, outputs, loaded>>

(***************************************************************************)
(* Lines 114-120: download and unpickle the stored record.                 *)
(***************************************************************************)
Download(e) ==
    /\ pc[e] = "checked"
    /\ store[BlobOf(e)] # NoBlob
    /\ message_history' =
          [message_history EXCEPT
              ![e] = Deserialize(store[BlobOf(e)]).historical_chat]
    /\ loaded' = [loaded EXCEPT ![e] = store[BlobOf(e)]]
    /\ pc' = [pc EXCEPT ![e] = "loaded"]
    /\ UNCHANGED <<failed_at, event, is_existing_thread, chat, response,
                   payload, keyword, outputs>>

\* Variant of SendMessage whose session history records the posted text.
SendMessagePayloadInHistory(e) ==
    /\ pc[e] = "loaded"
    /\ \E r \in Responses :
          /\ response' = [response EXCEPT ![e] = r]
          /\ chat' = [chat EXCEPT
                ![e] = ChatSend(message_history[e], event[e].text,
                                SelectPayload(r))]
          /\ payload' = [payload EXCEPT ![e] = SelectPayload(r)]
    /\ pc' = [pc EXCEPT ![e] = "completed"]
    /\ UNCHANGED <<failed_at, event, is_existing_thread, message_history,
                   keyword, outputs, loaded>>

(***************************************************************************)
(* Lines 122-138: start the chat session with the loaded history, send the *)
(* prompt, and choose the text to post.                                    *)
(***************************************************************************)
SendMessage(e) ==
    /\ pc[e] = "loaded"
    /\ \E r \in Responses :
          /\ response' = [response EXCEPT ![e] = r]
          /\ chat' = [chat EXCEPT
                ![e] = ChatSend(message_history[e], event[e].text, r.text)]
          /\ payload' = [payload EXCEPT ![e] = SelectPayload(r)]
    /\ pc' = [pc EXCEPT ![e] = "completed"]
    /\ UNCHANGED <<failed_at, event, is_existing_thread, message_history,
                   keyword, outputs, loaded>>

(***************************************************************************)
(* Line 141: client.chat_postMessage(channel=channel_id, thread_ts=ts,     *)
(* text=payload)                                                           *)
(***************************************************************************)
Post(e) ==
    /\ pc[e] = "completed"
    /\ posts' = [posts EXCEPT
          ![e] = Append(@, [channel |-> event[e].channel,
                            thread_ts |-> event[e].ts, text |-> payload[e]])]
    /\ pc' = [pc EXCEPT ![e] = "posted"]
    /\ UNCHANGED <<failed_at, event, locals, store, audit_log, saved,
                   loaded, last_saved>>

\* gc_utils.store_historical_chat_to_gcs: the blob is overwritten.
StoreHistoricalChat(st, metadata, history, blob_name) ==
    [st EXCEPT ![blob_name] = Serialize(metadata, history)]

\* Variant of Save that stores the loaded history, without the new turn.
SaveLoadedHistory(e) ==
    /\ pc[e] = "posted"
    /\ store' = StoreHistoricalChat(store, DUMMY_METADATA, message_history[e],
                                    BlobOf(e))
    /\ last_saved' = [last_saved EXCEPT ![BlobOf(e)] = message_history[e]]
    /\ saved' = [saved EXCEPT ![e] = TRUE]
    /\ IF is_existing_thread[e]
       THEN pc' = [pc EXCEPT ![e] = "done"] /\ Return(e)
       ELSE pc' = [pc EXCEPT ![e] = "saved"] /\ UNCHANGED locals
    /\ UNCHANGED <<failed_at, event, posts, audit_log, loaded>>

\* Variant of Save that reads the blob again and appends the new turn to what
\* it holds then.
SaveOntoCurrent(e) ==
    /\ pc[e] = "posted"
    /\ LET current == IF store[BlobOf(e)] = NoBlob THEN << >>
                      ELSE Deserialize(store[BlobOf(e)]).historical_chat
           merged == Append(current, chat[e][Len(chat[e])])
       IN /\ store' = StoreHistoricalChat(store, DUMMY_METADATA, merged,
                                          BlobOf(e))
          /\ last_saved' = [last_saved EXCEPT ![BlobOf(e)] = merged]
    /\ saved' = [saved EXCEPT ![e] = TRUE]
    /\ IF is_existing_thread[e]
       THEN pc' = [pc EXCEPT ![e] = "done"] /\ Return(e)
       ELSE pc' = [pc EXCEPT ![e] = "saved"] /\ UNCHANGED locals
    /\ UNCHANGED <<failed_at, event, posts, audit_log, loaded>>

(***************************************************************************)
(* Lines 143-151: store the session's history under the blob name that was *)
(* read; an existing thread's invocation ends here.                        *)
(***************************************************************************)
Save(e) ==
    /\ pc[e] = "posted"
    /\ store' = StoreHistoricalChat(store, DUMMY_METADATA, chat[e], BlobOf(e))
    /\ last_saved' = [last_saved EXCEPT ![BlobOf(e)] = chat[e]]
    /\ saved' = [saved EXCEPT ![e] = TRUE]
    /\ IF is_existing_thread[e]
       THEN pc' = [pc EXCEPT ![e] = "done"] /\ Return(e)
       ELSE pc' = [pc EXCEPT ![e] = "saved"] /\ UNCHANGED locals
    /\ UNCHANGED <<failed_at, event, posts, audit_log, loaded>>

(***************************************************************************)
(* Line 152: keyword = gc_utils.get_keyword(text_model, prompt, PARAMETERS) *)
(***************************************************************************)
GetKeyword(e) ==
    /\ pc[e] = "saved"
    /\ ~is_existing_thread[e]
    /\ \E k \in Keywords : keyword' = [keyword EXCEPT ![e] = k]
    /\ pc' = [pc EXCEPT ![e] = "keyworded"]
    /\ UNCHANGED <<failed_at, event, is_existing_thread, message_history, chat,
                   response, payload, outputs, loaded>>

(***************************************************************************)
(* Line 153: gc_utils.send_log(logger, user_id, prompt, payload, keyword)  *)
(***************************************************************************)
SendLog(e) ==
    /\ pc[e] = "keyworded"
    /\ audit_log' = [audit_log EXCEPT
          ![e] = Append(@, [user_id |-> event[e].user, prompt |-> event[e].text,
                            response |-> payload[e], keyword |-> keyword[e]])]
    /\ pc' = [pc EXCEPT ![e] = "done"]
    /\ Return(e)
    /\ UNCHANGED <<failed_at, event, store, posts, saved, loaded, last_saved>>

\* The network call an invocation makes next.
NextCall(p) ==
    CASE p = "received" -> "exists"
      [] p = "checked" -> "download"
      [] p = "loaded" -> "completion"
      [] p = "completed" -> "post"
      [] p = "posted" -> "save"
      [] p = "saved" -> "keyword"
      [] p = "keyworded" -> "audit"

Running == {"received", "checked", "loaded", "completed", "posted", "saved",
            "keyworded"}

\* Variant of Fail in which an error of chat_postMessage is swallowed and the
\* invocation goes on to store the history.
FailSwallowPost(e) ==
    /\ pc[e] \in Running
    /\ IF pc[e] = "completed"
       THEN /\ pc' = [pc EXCEPT ![e] = "posted"]
            /\ UNCHANGED <<failed_at, locals>>
       ELSE /\ failed_at' = [failed_at EXCEPT ![e] = NextCall(pc[e])]
            /\ pc' = [pc EXCEPT ![e] = "failed"]
            /\ Return(e)
    /\ UNCHANGED <<event, outputs, loaded>>

(***************************************************************************)
(* No call of lines 104-153 is inside a try: a call that raises ends the   *)
(* invocation there.                                                       *)
(***************************************************************************)
Fail(e) ==
    /\ pc[e] \in Running
    /\ failed_at' = [failed_at EXCEPT ![e] = NextCall(pc[e])]
    /\ pc' = [pc EXCEPT ![e] = "failed"]
    /\ Return(e)
    /\ UNCHANGED <<event, outputs, loaded>>

Next ==
    \E e \in Events :
        \/ Receive(e)
        \/ CheckExists(e)
        \/ Download(e)
        \/ SendMessage(e)
        \/ Post(e)
        \/ Save(e)
        \/ GetKeyword(e)
        \/ SendLog(e)
        \/ Fail(e)

Spec == Init /\ [][Next]_vars

(***************************************************************************)
(* Properties.                                                             *)
(***************************************************************************)
\* The history held by blob b.
StoredHistory(st, b) == Deserialize(st[b]).historical_chat

\* The turn an invocation's send_message adds.
TurnOf(e, text) == [input |-> PromptOf(e), output |-> text]

HasTurnOf(history, e) ==
    \E i \in 1 .. Len(history) : history[i].input = PromptOf(e)

\* The invocation has just posted (line 141 returned, line 143 not yet).
JustPosted(e) == pc[e] = "posted"

\* Step predicates: what invocation e does in a step.
SaveStep(e) == pc[e] = "posted" /\ pc'[e] \in {"saved", "done"}

DownloadStep(e) == pc[e] = "checked" /\ pc'[e] = "loaded"

SendStep(e) == pc[e] = "loaded" /\ pc'[e] = "completed"

\* C1: when the completion is blocked, the posted text is the fixed
\* policy-violation notice, whatever the model's raw text is.
C1_BlockedPostsNotice ==
    \A e \in Events :
        JustPosted(e) /\ response[e].is_blocked
            => /\ Len(posts[e]) = 1
               /\ posts[e][1].text = POLICY_NOTICE

C1_Witness ==
    \E e \in Events :
        /\ JustPosted(e)
        /\ response[e].is_blocked
        /\ response[e].text = <<"*", "a", "*">>
        /\ posts[e][1].text = POLICY_NOTICE

\* Python's str.isspace characters that occur in the model's texts.
Whitespace == {" ", "\n", "\t", "\r"}

IsWhitespaceOnly(text) == \A i \in 1 .. Len(text) : text[i] \in Whitespace

\* C2: when the generated text is empty or consists only of whitespace (any
\* whitespace), the posted text is the fixed policy-violation notice even if
\* the completion is not blocked.
C2_WhitespacePostsNotice ==
    \A e \in Events :
        JustPosted(e) /\ IsWhitespaceOnly(response[e].text)
            => /\ Len(posts[e]) = 1
               /\ posts[e][1].text = POLICY_NOTICE

\* C3: for one thread identifier an audit entry is emitted exactly once, on
\* the turn whose lookup found no record, and never on another turn of the
\* thread, under every interleaving of the thread's events.
C3_AuditOncePerThread ==
    \A e1, e2 \in Events :
        /\ e1 # e2
        /\ pc[e1] # "idle"
        /\ pc[e2] # "idle"
        /\ BlobOf(e1) = BlobOf(e2)
        => ~(audit_log[e1] # << >> /\ audit_log[e2] # << >>)

\* C4: the store call of a run writes, under the blob name of the run's thread
\* (the name the run read), the history the run loaded with exactly one turn
\* appended, and touches no other blob.
C4_SaveAppendsOneTurn ==
    [][\A e \in Events :
          SaveStep(e) =>
             /\ store'[BlobOf(e)] # NoBlob
             /\ BlobOf(e) = BlobName(ConversationThread(event[e]))
             /\ LET h == StoredHistory(store', BlobOf(e))
                IN /\ Len(h) = Len(message_history[e]) + 1
                   /\ SubSeq(h, 1, Len(h) - 1) = message_history[e]
             /\ \A b \in BlobNames \ {BlobOf(e)} : store'[b] = store[b]]_vars

C4_Witness ==
    \E e \in Events :
        /\ pc[e] = "done"
        /\ saved[e]
        /\ loaded[e] # NoBlob
        /\ Len(StoredHistory(store, BlobOf(e))) = 2
        /\ HasTurnOf(StoredHistory(store, BlobOf(e)), e)

C6_ReplyAnchoredToThread ==
    \A e \in Events :
        posts[e] # << >> =>
            /\ posts[e][1].channel = event[e].channel
            /\ posts[e][1].thread_ts = ConversationThread(event[e])

Posted(e) == Len(posts[e]) = 1

\* What an aborted invocation has done, by the call that raised.
C7_Aborted ==
    \A e \in Events :
        pc[e] = "failed" =>
            /\ audit_log[e] = << >>
            /\ failed_at[e] \in {"exists", "download", "completion", "post"}
                  => ~Posted(e) /\ ~saved[e]
            /\ failed_at[e] = "save" => Posted(e) /\ ~saved[e]
            /\ failed_at[e] \in {"keyword", "audit"} => Posted(e) /\ saved[e]

\* The raising step undoes nothing, and nothing of the invocation runs later.
C7_NoRollback ==
    \A e \in Events :
        /\ pc[e] # "failed" /\ pc'[e] = "failed" =>
              /\ store' = store
              /\ posts' = posts
              /\ audit_log' = audit_log
              /\ saved' = saved
        /\ pc[e] = "failed" =>
              /\ pc'[e] = "failed"
              /\ posts'[e] = posts[e]
              /\ audit_log'[e] = audit_log[e]
              /\ saved'[e] = saved[e]

\* C7: a step that fails ends the event's pipeline: no later step of the event
\* runs and no completed step is undone.
C7_FailureAborts == []C7_Aborted /\ [][C7_NoRollback]_vars

C7_Witness ==
    \E e1, e2 \in Events :
        /\ pc[e1] = "failed" /\ failed_at[e1] = "save"
        /\ Posted(e1) /\ ~saved[e1] /\ store[BlobOf(e1)] = NoBlob
        /\ pc[e2] = "failed" /\ failed_at[e2] = "keyword"
        /\ Posted(e2) /\ saved[e2] /\ store[BlobOf(e2)] # NoBlob

\* Two invocations that worked on the same record of the same thread.
SameRecord(e1, e2) ==
    /\ e1 # e2
    /\ saved[e1]
    /\ saved[e2]
    /\ BlobOf(e1) = BlobOf(e2)
    /\ loaded[e1] = loaded[e2]

\* C8: nothing serializes the load and save of two events of one thread: when
\* both loaded the same record and both saved, the stored history holds the
\* turn of at most one of them.
C8_LostUpdate ==
    \A e1, e2 \in Events :
        SameRecord(e1, e2) =>
            LET h == StoredHistory(store, BlobOf(e1))
            IN ~(HasTurnOf(h, e1) /\ HasTurnOf(h, e2))

C8_Witness ==
    \E e1, e2 \in Events :
        /\ SameRecord(e1, e2)
        /\ Posted(e1)
        /\ Posted(e2)
        /\ pc[e1] = "done"
        /\ pc[e2] = "done"
        /\ LET h == StoredHistory(store, BlobOf(e1))
           IN Len(h) = 1 /\ HasTurnOf(h, e2) /\ ~HasTurnOf(h, e1)

Loaded(e) == pc[e] \in {"loaded", "completed", "posted", "saved", "keyworded"}

Completed(e) == pc[e] \in {"completed", "posted", "saved", "keyworded"}

C9_NewThread ==
    \A e \in Events :
        /\ pc[e] # "idle" /\ event[e].thread_ts = None
              => BlobOf(e) = BlobName(event[e].ts)
        /\ Loaded(e) /\ ~is_existing_thread[e] => message_history[e] = << >>
        /\ Completed(e) /\ ~is_existing_thread[e]
              => chat[e] = <<TurnOf(e, response[e].text)>>
        /\ pc[e] \in {"saved", "keyworded"}
              => StoredHistory(store, BlobOf(e)) # << >>

C9_NotFoundStep ==
    \A e \in Events :
        /\ pc[e] = "received"
        /\ store[BlobOf(e)] = NoBlob
        /\ pc'[e] \notin {"received", "failed"}
        => /\ pc'[e] = "loaded"
           /\ ~is_existing_thread'[e]
           /\ message_history'[e] = << >>

\* C9: without thread_ts the event's ts names the thread; a lookup that finds
\* no record is not an error, the completion is asked with an empty history,
\* and the run goes on through post and save.
C9_NotFoundProceeds == []C9_NewThread /\ [][C9_NotFoundStep]_vars

C9_Witness ==
    \E e \in Events :
        /\ event[e].thread_ts = None
        /\ pc[e] = "saved"
        /\ ~is_existing_thread[e]
        /\ Posted(e)
        /\ StoredHistory(store, BlobName(event[e].ts))
              = <<TurnOf(e, response[e].text)>>

\* C10: when the notice replaces the reply, the record is still stored and
\* holds the session's real history (the model's raw text as the last output),
\* not the notice; only the posted text and the audit entry's response field
\* are the notice.
C10_SubstitutionNotPersisted ==
    [][\A e \in Events :
          /\ SaveStep(e) /\ payload[e] = POLICY_NOTICE =>
                /\ posts[e][1].text = POLICY_NOTICE
                /\ store'[BlobOf(e)] # NoBlob
                /\ LET h == StoredHistory(store', BlobOf(e))
                   IN /\ h = chat[e]
                      /\ h[Len(h)] = TurnOf(e, response[e].text)
                      /\ h[Len(h)].output # POLICY_NOTICE
          /\ pc[e] = "keyworded" /\ pc'[e] = "done" =>
                audit_log'[e][1].response = payload[e]]_vars

C10_Witness ==
    \E e \in Events :
        /\ pc[e] = "keyworded"
        /\ payload[e] = POLICY_NOTICE
        /\ response[e].is_blocked
        /\ response[e].text = <<"*", "a", "*">>
        /\ posts[e][1].text = POLICY_NOTICE
        /\ StoredHistory(store, BlobOf(e)) = <<TurnOf(e, <<"*", "a", "*">>)>>

====
